---- MODULE Spec2Model ----
(***************************************************************************)
(* Grow room sensor loggers: ads1115_logger.py (soil moisture through an   *)
(* ADS1115 ADC) and bme280_logger.py (temperature / humidity / pressure).  *)
(* Both sample a device on a fixed interval and write points to InfluxDB.  *)
(*                                                                         *)
(* Numbers.  A Python float is modelled as a record [k, n, d]:             *)
(*   k = "fin"  the exact rational n/d (d > 0),                            *)
(*   k = "nan"  NaN,     k = "inf"  +infinity (n = 1) or -infinity (n=-1), *)
(*   k = "none" Python's None,  k = "raise" an exception in flight.        *)
(* Finite arithmetic is exact; binary rounding error of IEEE doubles is    *)
(* not modelled, round() is decimal round-half-even on the exact value.    *)
(***************************************************************************)
EXTENDS Integers, Sequences, FiniteSets, TLC

----------------------------------------------------------------------------
(* Bounds of the exploration *)

MaxCycles == 2      \* loop iterations explored per run
MinK == 2           \* voltage grid of the calibration check: 0.4 V * MinK ..
MaxK == 8           \* .. 0.4 V * MaxK

----------------------------------------------------------------------------
(* Python float values *)

Fin(n, d) == [k |-> "fin", n |-> n, d |-> d]
NaN       == [k |-> "nan", n |-> 0, d |-> 1]
PosInf    == [k |-> "inf", n |-> 1, d |-> 1]
NegInf    == [k |-> "inf", n |-> -1, d |-> 1]
None      == [k |-> "none", n |-> 0, d |-> 1]
Raise     == [k |-> "raise", n |-> 0, d |-> 1]

IsFinite(x) == x.k = "fin"
IsZero(x)   == x.k = "fin" /\ x.n = 0

\* sign-normalised quotient of two integers, den # 0
Quot(num, den) == IF den < 0 THEN Fin(-num, -den) ELSE Fin(num, den)

\* a - b
FSub(a, b) ==
  IF a.k = "raise" \/ b.k = "raise" THEN Raise
  ELSE IF a.k = "nan" \/ b.k = "nan" THEN NaN
  ELSE IF a.k = "inf" /\ b.k = "inf" THEN (IF a.n = b.n THEN NaN ELSE a)
  ELSE IF a.k = "inf" THEN a
  ELSE IF b.k = "inf" THEN [b EXCEPT !.n = -b.n]
  ELSE IF a.d = b.d THEN Fin(a.n - b.n, a.d)
  ELSE IF b.d % a.d = 0 THEN Fin(a.n * (b.d \div a.d) - b.n, b.d)
  ELSE IF a.d % b.d = 0 THEN Fin(a.n - b.n * (a.d \div b.d), a.d)
  ELSE Fin(a.n * b.d - b.n * a.d, a.d * b.d)

\* a + b
FAdd(a, b) == FSub(a, IF b.k \in {"fin", "inf"} THEN [b EXCEPT !.n = -b.n] ELSE b)

\* a / b : float division raises ZeroDivisionError whenever b == 0.0
FDiv(a, b) ==
  IF a.k = "raise" \/ b.k = "raise" THEN Raise
  ELSE IF IsZero(b) THEN Raise
  ELSE IF a.k = "nan" \/ b.k = "nan" THEN NaN
  ELSE IF a.k = "inf" /\ b.k = "inf" THEN NaN
  ELSE IF a.k = "inf" THEN (IF b.n < 0 THEN [a EXCEPT !.n = -a.n] ELSE a)
  ELSE IF b.k = "inf" THEN Fin(0, 1)
  ELSE IF a.d = b.d THEN Quot(a.n, b.n)
  ELSE Quot(a.n * b.d, a.d * b.n)

\* a * b
FMul(a, b) ==
  IF a.k = "raise" \/ b.k = "raise" THEN Raise
  ELSE IF a.k = "nan" \/ b.k = "nan" THEN NaN
  ELSE IF a.k = "inf" \/ b.k = "inf" THEN
         (IF IsZero(a) \/ IsZero(b) THEN NaN
          ELSE IF (a.n < 0) = (b.n < 0) THEN PosInf ELSE NegInf)
  ELSE Fin(a.n * b.n, a.d * b.d)

\* a < b ; every comparison with NaN is false
FLt(a, b) ==
  IF a.k = "nan" \/ b.k = "nan" THEN FALSE
  ELSE IF a.k = "inf" /\ b.k = "inf" THEN a.n < b.n
  ELSE IF a.k = "inf" THEN a.n < 0
  ELSE IF b.k = "inf" THEN b.n > 0
  ELSE a.n * b.d < b.n * a.d

\* a == b as floats
FEq(a, b) ==
  IF a.k = "nan" \/ b.k = "nan" THEN FALSE
  ELSE IF a.k = "inf" \/ b.k = "inf" THEN a.k = b.k /\ a.n = b.n
  ELSE a.n * b.d = b.n * a.d

FLe(a, b) == FLt(a, b) \/ FEq(a, b)

\* builtin min(a, b): b only when b < a
PyMin(a, b) ==
  IF a.k = "raise" \/ b.k = "raise" THEN Raise
  ELSE IF FLt(b, a) THEN b ELSE a

\* builtin max(a, b): b only when b > a
PyMax(a, b) ==
  IF a.k = "raise" \/ b.k = "raise" THEN Raise
  ELSE IF FLt(a, b) THEN b ELSE a

\* n/d (d > 0) rounded to the nearest integer, ties to even
RoundHalfEven(n, d) ==
  LET q == n \div d
      r == n % d
  IN  IF 2 * r < d THEN q
      ELSE IF 2 * r > d THEN q + 1
      ELSE IF q % 2 = 0 THEN q ELSE q + 1

Pow10(nd) == IF nd = 0 THEN 1 ELSE IF nd = 1 THEN 10 ELSE IF nd = 2 THEN 100 ELSE 1000

\* builtin round(x, ndigits) on a float
PyRound(x, nd) ==
  IF x.k = "fin" THEN Fin(RoundHalfEven(x.n * Pow10(nd), x.d), Pow10(nd))
  ELSE x

----------------------------------------------------------------------------
(* ads1115_logger.py : calibration model *)

\* the function with the clamp left out
calculate_moisture_percent_noclamp(voltage, dry_voltage, wet_voltage) ==
  LET moisture_percent ==
        FMul(FDiv(FSub(dry_voltage, voltage), FSub(dry_voltage, wet_voltage)), Fin(100, 1))
      rounded == PyRound(moisture_percent, 1)
  IN  IF rounded.k = "raise" THEN None ELSE rounded

\* the function scaled from the wet end instead of the dry end
calculate_moisture_percent_wetend(voltage, dry_voltage, wet_voltage) ==
  LET moisture_percent ==
        FMul(FDiv(FSub(voltage, wet_voltage), FSub(dry_voltage, wet_voltage)), Fin(100, 1))
      clamped == PyMax(Fin(0, 1), PyMin(Fin(100, 1), moisture_percent))
      rounded == PyRound(clamped, 1)
  IN  IF rounded.k = "raise" THEN None ELSE rounded

\* the function without its try/except
calculate_moisture_percent_nocatch(voltage, dry_voltage, wet_voltage) ==
  LET moisture_percent ==
        FMul(FDiv(FSub(dry_voltage, voltage), FSub(dry_voltage, wet_voltage)), Fin(100, 1))
      clamped == PyMax(Fin(0, 1), PyMin(Fin(100, 1), moisture_percent))
  IN  PyRound(clamped, 1)

calculate_moisture_percent(voltage, dry_voltage, wet_voltage) ==
  LET moisture_percent ==
        FMul(FDiv(FSub(dry_voltage, voltage), FSub(dry_voltage, wet_voltage)), Fin(100, 1))
      clamped == PyMax(Fin(0, 1), PyMin(Fin(100, 1), moisture_percent))
      rounded == PyRound(clamped, 1)
  IN  IF rounded.k = "raise" THEN None ELSE rounded

----------------------------------------------------------------------------
(* ads1115_logger.py : channel registry, sampler, sink adapter *)

INTERVAL == 60

ChannelOrder == <<"A0", "A1", "A2", "A3">>
Channels == {"A0", "A1", "A2", "A3"}

\* volts, in 1/10000 V
Volt(n) == Fin(n, 10000)

ChannelConfig(enabled, name, location, dry, wet) ==
  [enabled |-> enabled, name |-> name, location |-> location,
   dry_voltage |-> Volt(dry), wet_voltage |-> Volt(wet)]

\* SENSOR_CONFIG as shipped
DefaultConfig ==
  [c \in Channels |->
     CASE c = "A0" -> ChannelConfig(TRUE, "soil_moisture_1", "pot_1", 28000, 12000)
       [] c = "A1" -> ChannelConfig(TRUE, "soil_moisture_2", "pot_2", 28000, 12000)
       [] c = "A2" -> ChannelConfig(FALSE, "unused_3", "unused", 28000, 12000)
       [] c = "A3" -> ChannelConfig(FALSE, "unused_4", "unused", 28000, 12000)]

\* SENSOR_CONFIG as an operator may edit it: channels switched on or off,
\* calibration pairs changed (inverted, or degenerate with dry == wet)
Configs ==
  { DefaultConfig,
    [DefaultConfig EXCEPT !["A0"].enabled = FALSE, !["A1"].enabled = FALSE],
    [DefaultConfig EXCEPT !["A0"].enabled = FALSE, !["A3"].enabled = TRUE,
                          !["A1"].dry_voltage = Volt(12000),
                          !["A1"].wet_voltage = Volt(28000)],
    [DefaultConfig EXCEPT !["A1"].dry_voltage = Volt(20000),
                          !["A1"].wet_voltage = Volt(20000)] }

\* what one access of chan.voltage can give: a voltage, or a device fault
DeviceFault == Raise
LoopVoltages == {Volt(12004), Volt(20006), Volt(33000)}
ChannelReadings == LoopVoltages \cup {DeviceFault}

\* result of a sampler or sink call: raised = an exception left the function
NoData == [raised |-> FALSE, isNone |-> TRUE, items |-> <<>>]
Propagated == [raised |-> TRUE, isNone |-> TRUE, items |-> <<>>]
Data(items) == [raised |-> FALSE, isNone |-> FALSE, items |-> items]

EnabledChannels(config) == SelectSeq(ChannelOrder, LAMBDA c : config[c].enabled)

SoilEntry(config, c, voltage) ==
  [channel |-> c,
   name |-> config[c].name,
   location |-> config[c].location,
   voltage |-> PyRound(voltage, 3),
   moisture_percent |->
     calculate_moisture_percent(voltage, config[c].dry_voltage, config[c].wet_voltage)]

\* the sampler without its try/except
read_soil_sensors_nocatch(config, readings) ==
  LET en == EnabledChannels(config)
  IN  IF \E i \in 1..Len(en) : readings[en[i]].k = "raise"
      THEN Propagated
      ELSE Data([i \in 1..Len(en) |-> SoilEntry(config, en[i], readings[en[i]])])

\* the sampler with a try/except around each channel instead of around the loop
read_soil_sensors_perchannel(config, readings) ==
  LET ok == SelectSeq(EnabledChannels(config), LAMBDA c : readings[c].k = "fin")
  IN  Data([i \in 1..Len(ok) |-> SoilEntry(config, ok[i], readings[ok[i]])])

\* data is an insertion-ordered dict, here the sequence of its entries;
\* one try/except wraps the loop over all channels
read_soil_sensors(config, readings) ==
  LET en == EnabledChannels(config)
  IN  IF \E i \in 1..Len(en) : readings[en[i]].k = "raise"
      THEN NoData
      ELSE Data([i \in 1..Len(en) |-> SoilEntry(config, en[i], readings[en[i]])])

\* "if sensor_data is not None" instead of "if sensor_data"
Truthy_notnone(data) == ~data.isNone

\* truth value of the sampler's result: None and {} are false
Truthy(data) == ~data.isNone /\ Len(data.items) > 0

SoilPoint(e) ==
  [measurement |-> "soil_moisture",
   tags |-> [location |-> "growroom", sensor |-> e.name, pot |-> e.location,
             channel |-> e.channel],
   fields |-> [voltage |-> e.voltage, moisture_percent |-> e.moisture_percent]]

\* result of the sink adapter: ret its return value, json_body the batch
\* handed to write_points, raised = an exception left the function
SinkResult(raised, ret, body) ==
  [raised |-> raised, ret |-> ret, json_body |-> body]

\* the sink adapter without its try/except
soil_send_to_influxdb_nocatch(write_ok, data) ==
  SinkResult(~write_ok, write_ok, [i \in 1..Len(data.items) |-> SoilPoint(data.items[i])])

\* the sink adapter leaving null fields out of the point
soil_send_to_influxdb_omitnull(write_ok, data) ==
  LET body == [i \in 1..Len(data.items) |->
                 LET p == SoilPoint(data.items[i])
                 IN  IF p.fields.moisture_percent = None
                     THEN [p EXCEPT !.fields = [voltage |-> p.fields.voltage]]
                     ELSE p]
  IN  SinkResult(FALSE, write_ok, body)

\* send_to_influxdb of ads1115_logger.py; write_ok = write_points did not raise
soil_send_to_influxdb(write_ok, data) ==
  SinkResult(FALSE, write_ok, [i \in 1..Len(data.items) |-> SoilPoint(data.items[i])])

----------------------------------------------------------------------------
(* bme280_logger.py : psychrometric model, sampler, sink adapter *)

\* temperatures the sensor reports, in 1/1000 degC; humidity in 1/10 %RH;
\* pressure in 1/100 Pa
Celsius(n) == Fin(n, 1000)
BmeTemperatures == {Celsius(-237400), Celsius(-237300), Celsius(25004), Celsius(40000)}
BmeHumidities == {Fin(375, 10), Fin(1000, 10)}
BmePressures == {Fin(10132537, 100)}

\* 0.61078 * exp(17.27*T / (T + 237.3)) in 1/1000 kPa, tabulated on
\* BmeTemperatures; just below the pole the argument of exp is huge and
\* math.exp raises OverflowError
MagnusSvp(temperature) ==
  CASE temperature = Celsius(25004) -> Fin(3168, 1000)
    [] temperature = Celsius(40000) -> Fin(7375, 1000)
    [] OTHER -> Raise

calculate_vpd(temperature, humidity) ==
  LET denom == FAdd(temperature, Fin(2373, 10))
      svp == IF IsZero(denom) THEN Raise ELSE MagnusSvp(temperature)
      avp == FMul(FDiv(humidity, Fin(100, 1)), svp)
      vpd == FSub(svp, avp)
      rounded == PyRound(vpd, 2)
  IN  IF rounded.k = "raise" THEN None ELSE rounded

\* what one cycle's accesses of the sensor properties can give
BmeReadings ==
  [fault : {FALSE}, ready : {TRUE},
   temperature : BmeTemperatures, humidity : BmeHumidities, pressure : BmePressures]
  \cup
  [fault : BOOLEAN, ready : {FALSE},
   temperature : {None}, humidity : {None}, pressure : {None}]

BmeEntry(r) ==
  [temperature |-> PyRound(r.temperature, 2),
   humidity |-> PyRound(r.humidity, 2),
   pressure |-> PyRound(FDiv(r.pressure, Fin(100, 1)), 2),
   vpd |-> calculate_vpd(r.temperature, r.humidity)]

\* the sampler without its try/except
read_sensor_data_nocatch(r) ==
  IF r.fault THEN Propagated
  ELSE IF r.ready THEN Data(<<BmeEntry(r)>>)
  ELSE NoData

\* the sampler raising when the sensor is not ready
read_sensor_data_notready_fatal(r) ==
  IF r.fault THEN NoData
  ELSE IF r.ready THEN Data(<<BmeEntry(r)>>)
  ELSE Propagated

\* data is one dict, here a sequence of one entry
read_sensor_data(r) ==
  IF r.fault THEN NoData
  ELSE IF r.ready THEN Data(<<BmeEntry(r)>>)
  ELSE NoData

BmePoint(e) ==
  [measurement |-> "environment",
   tags |-> [location |-> "growroom", sensor |-> "bme280"],
   fields |-> [temperature |-> e.temperature, humidity |-> e.humidity,
               pressure |-> e.pressure, vpd |-> e.vpd]]

\* the sink adapter without its try/except
bme_send_to_influxdb_nocatch(write_ok, data) ==
  SinkResult(~write_ok, write_ok, <<BmePoint(data.items[1])>>)

\* send_to_influxdb of bme280_logger.py
bme_send_to_influxdb(write_ok, data) ==
  SinkResult(FALSE, write_ok, <<BmePoint(data.items[1])>>)

----------------------------------------------------------------------------
(* The two programs as one state machine; logger says which one runs *)

VARIABLES
  logger,         \* "ads" | "bme" | "calc" (the calibration function alone)
  SENSOR_CONFIG,  \* module-level dict of ads1115_logger.py, never written
  pc,             \* position of the process
  retry_count,    \* local of setup_bme280
  begin_calls,    \* calls of sensor.begin() made
  backoff_sleeps, \* time.sleep(2) between attempts made
  raw,            \* what the device gave in the current cycle
  sensor_data,    \* local of main: the sampler's result
  send_result,    \* "none" | "True" | "False": what send_to_influxdb returned
  write_calls,    \* calls of client.write_points made: cycle, batch, outcome
  samples,        \* returns of the sampler so far: device input and result
  reads,          \* sampler invocations started
  sleeps,         \* time.sleep(INTERVAL) completed
  clock,          \* seconds spent in time.sleep so far
  closes,         \* calls of influx_client.close()
  cause,          \* "none" | "KeyboardInterrupt" | "Exception" caught in main
  raised_in,      \* where the exception caught in main came from
  interrupted_at, \* pc at which the interrupt signal arrived
  exit_status,    \* -1 while the process runs, else its exit status
  init_done,      \* initialisations that have succeeded, in order
  loop_entered,   \* main has reached its "try: while True:"
  in_voltage, in_voltage2, in_dry, in_wet,   \* arguments of the function
  out_moisture, out_moisture2                \* its results

calcvars == <<in_voltage, in_voltage2, in_dry, in_wet, out_moisture, out_moisture2>>
setupvars == <<retry_count, begin_calls, backoff_sleeps>>
entryvars == <<init_done, loop_entered>>
cyclevars == <<raw, sensor_data, send_result, write_calls, samples, reads, sleeps>>
timevars == <<clock>>
stopvars == <<closes, cause, raised_in, interrupted_at>>
vars == <<logger, SENSOR_CONFIG, pc, setupvars, entryvars, cyclevars, timevars, stopvars,
          exit_status, calcvars>>

SetupPcs == {"setup_device", "bme_begin", "bme_backoff", "bme_configure", "setup_sink"}
LoopPcs == {"loop_top", "reading", "writing", "report", "sleeping"}

\* raw before the device has been read in a cycle
NotRead(which) ==
  IF which = "bme"
  THEN [fault |-> FALSE, ready |-> FALSE, temperature |-> None, humidity |-> None,
        pressure |-> None]
  ELSE [c \in Channels |-> None]

Init ==
  /\ logger \in {"ads", "bme"}
  /\ SENSOR_CONFIG \in (IF logger = "ads" THEN Configs ELSE {DefaultConfig})
  /\ pc = "setup_device"
  /\ retry_count = 0 /\ begin_calls = 0 /\ backoff_sleeps = 0
  /\ raw = NotRead(logger)
  /\ sensor_data = NoData
  /\ send_result = "none"
  /\ write_calls = <<>> /\ samples = <<>>
  /\ reads = 0 /\ sleeps = 0 /\ closes = 0 /\ clock = 0
  /\ cause = "none" /\ raised_in = "none" /\ interrupted_at = "none"
  /\ exit_status = -1
  /\ init_done = <<>> /\ loop_entered = FALSE
  /\ in_voltage = None /\ in_voltage2 = None /\ in_dry = None /\ in_wet = None
  /\ out_moisture = None /\ out_moisture2 = None

\* sys.exit(status)
Exit(status) ==
  /\ pc' = "exited"
  /\ exit_status' = status

\* setup_ads1115: one try around bus and ADC construction, sys.exit(1) on a fault
setup_ads1115 ==
  /\ logger = "ads" /\ pc = "setup_device"
  /\ \E ok \in BOOLEAN :
       IF ok
       THEN pc' = "setup_sink" /\ init_done' = Append(init_done, "device")
            /\ UNCHANGED exit_status
       ELSE Exit(1) /\ UNCHANGED init_done
  /\ UNCHANGED <<clock, logger, SENSOR_CONFIG, setupvars, loop_entered, cyclevars, stopvars,
                 calcvars>>

\* setup_bme280: construction of the driver object
setup_bme280_construct ==
  /\ logger = "bme" /\ pc = "setup_device"
  /\ \E ok \in BOOLEAN :
       IF ok THEN pc' = "bme_begin" /\ UNCHANGED exit_status
       ELSE Exit(1)
  /\ UNCHANGED <<clock, logger, SENSOR_CONFIG, setupvars, entryvars, cyclevars, stopvars,
                 calcvars>>

\* setup_bme280: one evaluation of "while not sensor.begin()" and, when it
\* fails, the loop body up to the sleep
setup_bme280_begin ==
  /\ logger = "bme" /\ pc = "bme_begin"
  /\ begin_calls' = begin_calls + 1
  /\ \E detected \in BOOLEAN :
       IF detected
       THEN pc' = "bme_configure" /\ UNCHANGED <<retry_count, exit_status>>
       ELSE /\ retry_count' = retry_count + 1
            /\ IF retry_count' > 3 THEN Exit(1)
               ELSE pc' = "bme_backoff" /\ UNCHANGED exit_status
  /\ UNCHANGED <<clock, logger, SENSOR_CONFIG, backoff_sleeps, entryvars, cyclevars, stopvars,
                 calcvars>>

\* setup_bme280: time.sleep(2) at the end of the loop body
setup_bme280_backoff ==
  /\ logger = "bme" /\ pc = "bme_backoff"
  /\ backoff_sleeps' = backoff_sleeps + 1
  /\ clock' = clock + 2
  /\ pc' = "bme_begin"
  /\ UNCHANGED <<logger, SENSOR_CONFIG, retry_count, begin_calls, entryvars, cyclevars,
                 stopvars, exit_status, calcvars>>

\* setup_bme280: the configuration calls and the wait after them
setup_bme280_configure ==
  /\ logger = "bme" /\ pc = "bme_configure"
  /\ \E ok \in BOOLEAN :
       IF ok
       THEN pc' = "setup_sink" /\ init_done' = Append(init_done, "device")
            /\ clock' = clock + 2
            /\ UNCHANGED exit_status
       ELSE Exit(1) /\ UNCHANGED <<init_done, clock>>
  /\ UNCHANGED <<logger, SENSOR_CONFIG, setupvars, loop_entered, cyclevars, stopvars,
                 calcvars>>

\* setup_influxdb going on into the loop when the connection failed
setup_influxdb_noexit ==
  /\ logger \in {"ads", "bme"} /\ pc = "setup_sink"
  /\ \E ok \in BOOLEAN :
       /\ pc' = "loop_top" /\ loop_entered' = TRUE
       /\ init_done' = IF ok THEN Append(init_done, "sink") ELSE init_done
       /\ UNCHANGED exit_status
  /\ UNCHANGED <<clock, logger, SENSOR_CONFIG, setupvars, cyclevars, stopvars, calcvars>>

\* setup_influxdb (the same in both programs), then main up to "while True"
setup_influxdb ==
  /\ logger \in {"ads", "bme"} /\ pc = "setup_sink"
  /\ \E ok \in BOOLEAN :
       IF ok
       THEN /\ pc' = "loop_top" /\ loop_entered' = TRUE
            /\ init_done' = Append(init_done, "sink")
            /\ UNCHANGED exit_status
       ELSE Exit(1) /\ UNCHANGED entryvars
  /\ UNCHANGED <<clock, logger, SENSOR_CONFIG, setupvars, cyclevars, stopvars, calcvars>>

\* position of a channel in the iteration order of the channels dict
Idx(c) == CHOOSE i \in 1..Len(ChannelOrder) : ChannelOrder[i] = c

\* the accesses of chan.voltage one call of read_soil_sensors can make: enabled
\* channels in order, none after the first fault, disabled channels never
SoilReadings(config) ==
  { r \in [Channels -> ChannelReadings \cup {None}] :
      \A c \in Channels :
        (r[c] = None) <=>
          (\/ ~config[c].enabled
           \/ \E b \in Channels : Idx(b) < Idx(c) /\ r[b] = DeviceFault) }

\* an exception that reaches the try of main
Caught(kind, where) ==
  /\ pc' = "finally"
  /\ cause' = kind
  /\ raised_in' = where

\* main: "while True:" and the call of the sampler
main_start_cycle ==
  /\ pc = "loop_top"
  /\ reads < MaxCycles
  /\ pc' = "reading"
  /\ reads' = reads + 1
  /\ raw' = NotRead(logger)
  /\ send_result' = "none"
  /\ UNCHANGED <<clock, samples, logger, SENSOR_CONFIG, setupvars, entryvars, sensor_data, write_calls, sleeps,
                 stopvars, exit_status, calcvars>>

\* main dropping a result that equals the one of the cycle before
AfterRead_dedupe(result) ==
  IF result.raised
  THEN Caught("Exception", "sampler") /\ UNCHANGED <<sensor_data, samples, interrupted_at>>
  ELSE LET kept == IF Truthy(result) /\ result = sensor_data THEN NoData ELSE result
       IN  /\ sensor_data' = kept
           /\ samples' = Append(samples, [raw |-> raw', data |-> kept])
           /\ pc' = IF Truthy(kept) THEN "writing" ELSE "report"
           /\ UNCHANGED <<cause, raised_in, interrupted_at>>

\* what main does with the sampler's result
AfterRead(result) ==
  IF result.raised
  THEN Caught("Exception", "sampler") /\ UNCHANGED <<sensor_data, samples, interrupted_at>>
  ELSE /\ sensor_data' = result
       /\ samples' = Append(samples, [raw |-> raw', data |-> result])
       /\ pc' = IF Truthy(result) THEN "writing" ELSE "report"
       /\ UNCHANGED <<cause, raised_in, interrupted_at>>

\* ads1115_logger.py main: sensor_data = read_soil_sensors(ads); if sensor_data:
main_read_soil ==
  /\ logger = "ads" /\ pc = "reading"
  /\ \E readings \in SoilReadings(SENSOR_CONFIG) :
       /\ raw' = readings
       /\ AfterRead(read_soil_sensors(SENSOR_CONFIG, readings))
  /\ UNCHANGED <<clock, logger, SENSOR_CONFIG, setupvars, entryvars, send_result, write_calls, reads,
                 sleeps, closes, exit_status, calcvars>>

\* bme280_logger.py main: sensor_data = read_sensor_data(sensor); if sensor_data:
main_read_bme ==
  /\ logger = "bme" /\ pc = "reading"
  /\ \E r \in BmeReadings :
       /\ raw' = r
       /\ AfterRead(read_sensor_data(r))
  /\ UNCHANGED <<clock, logger, SENSOR_CONFIG, setupvars, entryvars, send_result, write_calls, reads,
                 sleeps, closes, exit_status, calcvars>>

\* main calling the sink adapter a second time when the first call failed
AfterSend_retry(write_ok, result) ==
  LET call == [cycle |-> reads, json_body |-> result.json_body, ok |-> write_ok]
  IN  /\ write_calls' = IF write_ok THEN Append(write_calls, call)
                        ELSE write_calls \o <<call, call>>
      /\ send_result' = IF result.ret THEN "True" ELSE "False"
      /\ pc' = "report"
      /\ UNCHANGED <<cause, raised_in, interrupted_at>>

\* what main does with the sink adapter's result
AfterSend(write_ok, result) ==
  /\ write_calls' = Append(write_calls,
                           [cycle |-> reads, json_body |-> result.json_body,
                            ok |-> write_ok])
  /\ IF result.raised
     THEN Caught("Exception", "sink") /\ UNCHANGED <<send_result, interrupted_at>>
     ELSE /\ send_result' = IF result.ret THEN "True" ELSE "False"
          /\ pc' = "report"
          /\ UNCHANGED <<cause, raised_in, interrupted_at>>

\* ads1115_logger.py main: if send_to_influxdb(influx_client, sensor_data):
main_send_soil ==
  /\ logger = "ads" /\ pc = "writing"
  /\ \E write_ok \in BOOLEAN :
       AfterSend(write_ok, soil_send_to_influxdb(write_ok, sensor_data))
  /\ UNCHANGED <<clock, samples, logger, SENSOR_CONFIG, setupvars, entryvars, raw, sensor_data, reads, sleeps,
                 closes, exit_status, calcvars>>

\* bme280_logger.py main: if send_to_influxdb(influx_client, sensor_data):
main_send_bme ==
  /\ logger = "bme" /\ pc = "writing"
  /\ \E write_ok \in BOOLEAN :
       AfterSend(write_ok, bme_send_to_influxdb(write_ok, sensor_data))
  /\ UNCHANGED <<clock, samples, logger, SENSOR_CONFIG, setupvars, entryvars, raw, sensor_data, reads, sleeps,
                 closes, exit_status, calcvars>>

\* main going straight to the next cycle when there is nothing to send
main_report_nosleep ==
  /\ pc = "report"
  /\ pc' = IF Truthy(sensor_data) THEN "sleeping" ELSE "loop_top"
  /\ UNCHANGED <<clock, logger, SENSOR_CONFIG, setupvars, entryvars, cyclevars, stopvars,
                 exit_status, calcvars>>

\* main: the print of the cycle's outcome (readings, or one of the failures)
main_report ==
  /\ pc = "report"
  /\ pc' = "sleeping"
  /\ UNCHANGED <<clock, logger, SENSOR_CONFIG, setupvars, entryvars, cyclevars, stopvars, exit_status,
                 calcvars>>

\* main: time.sleep(INTERVAL) returns
main_sleep ==
  /\ pc = "sleeping"
  /\ sleeps' = sleeps + 1
  /\ clock' = clock + INTERVAL
  /\ pc' = "loop_top"
  /\ UNCHANGED <<samples, logger, SENSOR_CONFIG, setupvars, entryvars, raw, sensor_data, send_result,
                 write_calls, reads, stopvars, exit_status, calcvars>>

\* main's "except KeyboardInterrupt": Python raises the interrupt at whatever
\* point the main thread has reached, and "except Exception" in the sampler
\* and in the sink adapter lets it pass
interrupt_handler(at) ==
  /\ Caught("KeyboardInterrupt", "signal")
  /\ interrupted_at' = at

\* SIGINT (Ctrl+C) while the loop runs; the operator sends it once
keyboard_interrupt ==
  /\ pc \in LoopPcs
  /\ cause = "none"
  /\ interrupt_handler(pc)
  /\ UNCHANGED <<clock, logger, SENSOR_CONFIG, setupvars, entryvars, cyclevars, closes, exit_status,
                 calcvars>>

\* SIGINT during setup: nothing catches it, the interpreter ends with SIGINT
keyboard_interrupt_setup ==
  /\ pc \in SetupPcs
  /\ cause' = "KeyboardInterrupt"
  /\ raised_in' = "signal"
  /\ interrupted_at' = pc
  /\ Exit(130)
  /\ UNCHANGED <<clock, logger, SENSOR_CONFIG, setupvars, entryvars, cyclevars, closes, calcvars>>

\* an exception raised in the loop body outside the sampler and the sink
\* adapter (a print or the sleep failing): main's "except Exception"
unexpected_error ==
  /\ pc \in {"report", "sleeping"}
  /\ Caught("Exception", "loop")
  /\ UNCHANGED <<clock, logger, SENSOR_CONFIG, setupvars, entryvars, cyclevars, closes, interrupted_at,
                 exit_status, calcvars>>

\* close() in the "except KeyboardInterrupt" clause instead of in "finally"
main_finally_interrupt_only ==
  /\ pc = "finally"
  /\ closes' = IF cause = "KeyboardInterrupt" THEN closes + 1 ELSE closes
  /\ \E close_ok \in BOOLEAN :
       Exit(IF close_ok THEN 0 ELSE 1)
  /\ UNCHANGED <<clock, logger, SENSOR_CONFIG, setupvars, entryvars, cyclevars, cause,
                 raised_in, interrupted_at, calcvars>>

\* main: finally: influx_client.close(); both except clauses only print, so
\* main returns and the interpreter exits with status 0, or with a traceback
\* and status 1 when close() itself raised
main_finally ==
  /\ pc = "finally"
  /\ closes' = closes + 1
  /\ \E close_ok \in BOOLEAN :
       Exit(IF close_ok THEN 0 ELSE 1)
  /\ UNCHANGED <<clock, logger, SENSOR_CONFIG, setupvars, entryvars, cyclevars, cause, raised_in,
                 interrupted_at, calcvars>>

Next ==
  \/ setup_ads1115
  \/ setup_bme280_construct
  \/ setup_bme280_begin
  \/ setup_bme280_backoff
  \/ setup_bme280_configure
  \/ setup_influxdb
  \/ main_start_cycle
  \/ main_read_soil
  \/ main_read_bme
  \/ main_send_soil
  \/ main_send_bme
  \/ main_report
  \/ main_sleep
  \/ keyboard_interrupt
  \/ keyboard_interrupt_setup
  \/ unexpected_error
  \/ main_finally

Spec == Init /\ [][Next]_vars

----------------------------------------------------------------------------
(* The calibration function on its own *)

GridVoltages == {Volt(4000 * k + o) : k \in MinK..MaxK, o \in {0, 4, 6}}
NonFinite == {NaN, PosInf, NegInf}
CalibrationVoltages == {Volt(12000), Volt(20000), Volt(28000)}

InitCalc ==
  /\ logger = "calc"
  /\ SENSOR_CONFIG = DefaultConfig
  /\ pc = "calc_call"
  /\ retry_count = 0 /\ begin_calls = 0 /\ backoff_sleeps = 0
  /\ raw = NotRead(logger)
  /\ sensor_data = NoData
  /\ send_result = "none"
  /\ write_calls = <<>> /\ samples = <<>>
  /\ reads = 0 /\ sleeps = 0 /\ closes = 0 /\ clock = 0
  /\ cause = "none" /\ raised_in = "none" /\ interrupted_at = "none"
  /\ exit_status = -1
  /\ init_done = <<>> /\ loop_entered = FALSE
  /\ in_voltage \in GridVoltages \cup NonFinite
  /\ in_voltage2 \in GridVoltages
  /\ in_dry \in CalibrationVoltages
  /\ in_wet \in CalibrationVoltages
  /\ out_moisture = None /\ out_moisture2 = None

\* two calls with the same calibration pair
call_calculate_moisture_percent ==
  /\ logger = "calc" /\ pc = "calc_call"
  /\ out_moisture' = calculate_moisture_percent(in_voltage, in_dry, in_wet)
  /\ out_moisture2' = calculate_moisture_percent(in_voltage2, in_dry, in_wet)
  /\ pc' = "calc_return"
  /\ UNCHANGED <<clock, logger, SENSOR_CONFIG, setupvars, entryvars, cyclevars, stopvars,
                 exit_status, in_voltage, in_voltage2, in_dry, in_wet>>

NextCalc == call_calculate_moisture_percent

SpecCalc == InitCalc /\ [][NextCalc]_vars

----------------------------------------------------------------------------
(* Properties *)

Running == exit_status = -1 /\ pc \in LoopPcs

\* a device fault was met in the current cycle's read
RawFault ==
  IF logger = "bme" THEN raw.fault
  ELSE \E c \in Channels : raw[c] = DeviceFault

\* the current cycle's sampler call and, if made, sink call have returned
CycleSettled == pc \in {"report", "sleeping"}

\* the calls of write_points made in the current cycle
CycleWrites == {i \in 1..Len(write_calls) : write_calls[i].cycle = reads}

\* the step leaves the loop for a reason that is not the sampler's or the
\* sink adapter's: the interrupt signal, or a fault of a print or of the sleep
Diverted == pc' = "finally" /\ raised_in' \in {"signal", "loop"}

\* from where the cycle's outcome is known, the loop goes on: report, sleep the
\* interval once, start the next cycle
LoopGoesOn ==
  /\ pc = "report" => (pc' = "sleeping" /\ sleeps' = sleeps /\ reads' = reads)
  /\ pc = "sleeping" => (/\ pc' = "loop_top" /\ sleeps' = sleeps + 1
                          /\ clock' = clock + INTERVAL /\ reads' = reads)
  /\ pc = "loop_top" => (pc' = "reading" /\ reads' = reads + 1)

\* C1: in a cycle of the soil-moisture logger where the read of A1 raises a
\* device fault and the read of A0 succeeds, an observation for A0 is
\* submitted to the sink in that cycle.
C1_FaultOnA1StillWritesA0 ==
  (/\ logger = "ads"
   /\ CycleSettled
   /\ raw["A0"].k = "fin"
   /\ raw["A1"] = DeviceFault)
  => \E i \in CycleWrites :
       \E j \in 1..Len(write_calls[i].json_body) :
         write_calls[i].json_body[j].tags.channel = "A0"

\* the step is a call of write_points that raises
WriteFaultStep ==
  /\ pc = "writing"
  /\ Len(write_calls') = Len(write_calls) + 1
  /\ ~write_calls'[Len(write_calls')].ok

\* C2: when write_points raises, send_to_influxdb returns False without
\* raising and the process keeps running; from there the loop reports, sleeps
\* the interval and starts the next cycle, unless the interrupt signal or a
\* fault outside the sink adapter ends it. Both loggers, any number of write
\* faults in a row.
C2_WriteFaultNeverStopsLoop ==
  /\ [][WriteFaultStep =>
          (pc' = "report" /\ send_result' = "False" /\ exit_status' = -1
           /\ closes' = closes /\ cause' = "none")]_vars
  /\ [][(send_result = "False" /\ Running) => (LoopGoesOn \/ Diverted)]_vars
  /\ [](raised_in # "sink")

C2_Witness ==
  /\ Len(write_calls) >= 2
  /\ \A i \in 1..Len(write_calls) : ~write_calls[i].ok
  /\ write_calls[1].cycle < write_calls[2].cycle
  /\ send_result = "False"
  /\ Running

\* the step is a return of the sampler in a cycle where a device fault was met
ReadFaultStep ==
  /\ pc = "reading"
  /\ raw' # raw
  /\ IF logger = "bme" THEN raw'.fault ELSE \E c \in Channels : raw'[c] = DeviceFault

\* C3: an exception raised inside the sampler is caught there and becomes a
\* None result; it never reaches main's try, the process keeps running and
\* the loop goes on to the next cycle (unless the interrupt signal or a fault
\* outside the sampler ends it).
C3_SamplerFaultBecomesNone ==
  /\ [][ReadFaultStep =>
          (sensor_data' = NoData /\ pc' = "report" /\ exit_status' = -1
           /\ cause' = "none" /\ write_calls' = write_calls)]_vars
  /\ [][(RawFault /\ Running) => (LoopGoesOn \/ Diverted)]_vars
  /\ [](raised_in # "sampler")

C3_Witness ==
  /\ RawFault
  /\ sensor_data = NoData
  /\ pc = "loop_top"
  /\ sleeps = reads
  /\ Running

\* the point of the current cycle's batch for channel c, if there is one
SoilPointsFor(c) ==
  {p \in UNION {{write_calls[i].json_body[j] : j \in 1..Len(write_calls[i].json_body)}
                  : i \in CycleWrites} :
     p.tags.channel = c}

BmePointsNow ==
  UNION {{write_calls[i].json_body[j] : j \in 1..Len(write_calls[i].json_body)}
           : i \in CycleWrites}

\* C4: in a cycle where the device read succeeds and the derived metric is
\* undefined (dry_voltage == wet_voltage, or the temperature where T + 237.3
\* is zero), the observation is submitted in that cycle with the derived
\* field present and None and the raw fields holding the rounded readings.
C4_NullMetricStillWritten ==
  /\ (logger = "ads" /\ CycleSettled /\ ~RawFault) =>
       \A c \in Channels :
         (SENSOR_CONFIG[c].enabled
          /\ FEq(SENSOR_CONFIG[c].dry_voltage, SENSOR_CONFIG[c].wet_voltage))
         => \E p \in SoilPointsFor(c) :
              /\ DOMAIN p.fields = {"voltage", "moisture_percent"}
              /\ p.fields.moisture_percent = None
              /\ p.fields.voltage = PyRound(raw[c], 3)
  /\ (logger = "bme" /\ CycleSettled /\ ~RawFault /\ raw.ready
      /\ raw.temperature = Celsius(-237300)) =>
       \E p \in BmePointsNow :
         /\ DOMAIN p.fields = {"temperature", "humidity", "pressure", "vpd"}
         /\ p.fields.vpd = None
         /\ p.fields.temperature = PyRound(raw.temperature, 2)
         /\ p.fields.humidity = PyRound(raw.humidity, 2)
         /\ p.fields.pressure = PyRound(FDiv(raw.pressure, Fin(100, 1)), 2)

C4_Witness ==
  /\ logger = "ads" /\ CycleSettled /\ ~RawFault
  /\ SENSOR_CONFIG["A1"].enabled
  /\ SENSOR_CONFIG["A1"].dry_voltage = SENSOR_CONFIG["A1"].wet_voltage
  /\ \E p \in SoilPointsFor("A1") :
       p.fields.moisture_percent = None /\ p.fields.voltage.k = "fin"

\* C5: once the loop has been entered, leaving it (interrupt signal or
\* unexpected exception) calls close() exactly once before the process
\* stops, and no sampler read or sink write happens after close().
C5_CloseOnceOnEveryExit ==
  /\ [](closes <= 1)
  /\ []((loop_entered /\ pc = "exited") => closes = 1)
  /\ [][closes >= 1 => (reads' = reads /\ write_calls' = write_calls
                        /\ raw' = raw /\ pc' = "exited")]_vars

C5_Witness ==
  /\ loop_entered /\ pc = "exited"
  /\ cause = "Exception"
  /\ closes = 1
  /\ reads >= 1

\* C6: an exception that reaches the loop in main ends the process with a
\* non-zero exit status, after close() has been called.
C6_UncaughtFaultExitsNonZero ==
  (pc = "exited" /\ cause = "Exception") => (exit_status # 0 /\ closes = 1)

\* C7: the loop is entered only after the device initialisation and then the
\* sink initialisation have succeeded; when either fails the process exits
\* with status 1 and no sampler read, sink write or interval sleep has
\* happened.
C7_StartupFaultsFatal ==
  /\ (loop_entered \/ pc \in LoopPcs) => init_done = <<"device", "sink">>
  /\ (pc = "exited" /\ ~loop_entered /\ cause = "none") =>
       (/\ exit_status = 1
        /\ init_done \in {<<>>, <<"device">>}
        /\ reads = 0 /\ sleeps = 0 /\ write_calls = <<>>)
  /\ ~loop_entered => (reads = 0 /\ sleeps = 0 /\ write_calls = <<>>)

C7_Witness ==
  /\ pc = "exited" /\ exit_status = 1
  /\ init_done = <<"device">>
  /\ ~loop_entered

\* C8: an interrupt signal is acted on only between cycles: it never ends a
\* device read or a sink write that is in flight.
C8_InterruptOnlyAtCycleBoundary ==
  cause = "KeyboardInterrupt" => interrupted_at \notin {"reading", "writing"}

\* C9: for every voltage and every calibration pair with dry # wet (inverted
\* pairs and out-of-range voltages included) the result is not None and lies
\* in [0, 100].
C9_MoistureInRange ==
  (pc = "calc_return" /\ ~FEq(in_dry, in_wet)) =>
    (/\ out_moisture # None
     /\ FLe(Fin(0, 1), out_moisture)
     /\ FLe(out_moisture, Fin(100, 1)))

C9_Witness ==
  /\ pc = "calc_return"
  /\ FLt(in_dry, in_wet)
  /\ FLt(in_wet, in_voltage) /\ IsFinite(in_voltage)
  /\ FEq(out_moisture, Fin(100, 1))

\* C10: with dry # wet, the result at voltage == dry is 0 and at voltage ==
\* wet is 100, and with dry > wet a higher voltage never gives a higher
\* result.
C10_AnchorsAndMonotone ==
  (pc = "calc_return" /\ ~FEq(in_dry, in_wet)) =>
    (/\ FEq(in_voltage, in_dry) => FEq(out_moisture, Fin(0, 1))
     /\ FEq(in_voltage, in_wet) => FEq(out_moisture, Fin(100, 1))
     /\ (FLt(in_wet, in_dry) /\ FLe(in_voltage, in_voltage2))
          => FLe(out_moisture2, out_moisture))

C10_Witness ==
  /\ pc = "calc_return"
  /\ in_dry = Volt(28000) /\ in_wet = Volt(12000)
  /\ in_voltage = in_wet /\ in_voltage2 = in_dry
  /\ FEq(out_moisture, Fin(100, 1))
  /\ FEq(out_moisture2, Fin(0, 1))

\* C11: with dry_voltage == wet_voltage the function returns None for every
\* voltage and no exception leaves it.
C11_DegeneratePairGivesNone ==
  (pc = "calc_return" /\ FEq(in_dry, in_wet)) =>
    (out_moisture = None /\ out_moisture2 = None)

C11_Witness ==
  /\ pc = "calc_return"
  /\ in_dry = in_wet
  /\ in_voltage = NaN
  /\ out_moisture = None

\* C12: the function returns None whenever the voltage is NaN or an infinity,
\* also with dry # wet.
C12_NonFiniteVoltageGivesNone ==
  (pc = "calc_return" /\ in_voltage \in NonFinite) => out_moisture = None

\* the batch the sink adapter builds from one cycle's device input
BatchOf(r) ==
  IF logger = "bme" THEN <<BmePoint(BmeEntry(r))>>
  ELSE LET en == EnabledChannels(SENSOR_CONFIG)
       IN  [i \in 1..Len(en) |-> SoilPoint(SoilEntry(SENSOR_CONFIG, en[i], r[en[i]]))]

\* C13: a cycle's observation set is handed to write_points at most once, and
\* every batch holds the points of its own cycle's readings only: nothing of
\* an earlier (failed) batch is submitted again or added to a later batch.
C13_AtMostOnceNoBuffering ==
  /\ \A i, j \in 1..Len(write_calls) :
       i < j => write_calls[i].cycle < write_calls[j].cycle
  /\ \A i \in 1..Len(write_calls) :
       /\ write_calls[i].cycle \in 1..Len(samples)
       /\ write_calls[i].json_body = BatchOf(samples[write_calls[i].cycle].raw)

C13_Witness ==
  /\ Len(write_calls) = 2
  /\ ~write_calls[1].ok
  /\ write_calls[2].ok
  /\ write_calls[1].json_body # write_calls[2].json_body
  /\ Running

\* C14: two cycles with the same device input give the same observations
\* (tags and field values), whatever happened in other cycles.
C14_NoStateBetweenCycles ==
  /\ \A i, j \in 1..Len(samples) :
       samples[i].raw = samples[j].raw => samples[i].data = samples[j].data
  /\ \A a, b \in 1..Len(write_calls) :
       (/\ write_calls[a].cycle \in 1..Len(samples)
        /\ write_calls[b].cycle \in 1..Len(samples)
        /\ samples[write_calls[a].cycle].raw = samples[write_calls[b].cycle].raw)
       => write_calls[a].json_body = write_calls[b].json_body

C14_Witness ==
  /\ Len(samples) >= 2
  /\ samples[1].raw = samples[2].raw
  /\ Truthy(samples[2].data)
  /\ Len(write_calls) >= 2
  /\ ~write_calls[1].ok
  /\ write_calls[1].json_body = write_calls[2].json_body

\* C15: in a cycle the sink adapter is called exactly when the sampler's
\* result is a non-empty set, once, with the whole set as one batch; a None
\* or empty result gives no call.
C15_SinkCalledIffNonEmpty ==
  CycleSettled =>
    /\ Cardinality(CycleWrites) = IF Truthy(sensor_data) THEN 1 ELSE 0
    /\ \A i \in CycleWrites :
         /\ Len(write_calls[i].json_body) = Len(sensor_data.items)
         /\ Len(write_calls[i].json_body) > 0

C15_Witness ==
  /\ logger = "ads"
  /\ CycleSettled
  /\ sensor_data = Data(<<>>)
  /\ CycleWrites = {}

\* time.sleep the setup has spent before the loop
SetupSleep == 2 * backoff_sleeps + (IF logger = "bme" THEN 2 ELSE 0)

\* C16: every completed cycle is followed by exactly one time.sleep(INTERVAL)
\* before the next call of the sampler, whatever the cycle's outcome; no two
\* sampler calls without an interval sleep between them.
C16_OneSleepPerCycle ==
  /\ pc \in {"reading", "writing", "report", "sleeping"} => sleeps = reads - 1
  /\ pc = "loop_top" => sleeps = reads
  /\ loop_entered => (sleeps <= reads /\ reads <= sleeps + 1)
  /\ loop_entered => clock = SetupSleep + INTERVAL * sleeps
  /\ ~loop_entered => (sleeps = 0 /\ reads = 0)

C16_Witness ==
  /\ pc = "reading"
  /\ reads = 2 /\ sleeps = 1
  /\ samples[1].data = NoData
  /\ clock >= INTERVAL

\* C17: setup_bme280 calls sensor.begin() at most 3 times, with a 2-second
\* wait between consecutive calls; when no call succeeds the process exits
\* with status 1 and the loop is not entered.
C17_AtMostThreeAttempts ==
  /\ begin_calls <= 3
  /\ backoff_sleeps <= begin_calls
  /\ (pc = "exited" /\ begin_calls > 0 /\ init_done = <<>> /\ cause = "none")
       => (exit_status = 1 /\ ~loop_entered)

\* the step is a return of the environmental sampler with the sensor not ready
NotReadyStep ==
  /\ logger = "bme" /\ pc = "reading"
  /\ pc' # "reading"
  /\ raised_in' # "signal"
  /\ ~raw'.ready /\ ~raw'.fault

\* C18: a cycle in which the initialised sensor is not ready gives no
\* observation and no sink call and the process keeps running; the loop goes
\* on, and a cycle in which the sensor is ready submits its observation.
C18_NotReadyNeverFatal ==
  /\ [][NotReadyStep =>
          (/\ pc' = "report" /\ sensor_data' = NoData /\ write_calls' = write_calls
           /\ exit_status' = -1 /\ cause' = "none")]_vars
  /\ [][(logger = "bme" /\ Running /\ pc # "reading" /\ ~raw.ready /\ ~raw.fault)
          => (LoopGoesOn \/ Diverted)]_vars
  /\ []((logger = "bme" /\ CycleSettled /\ raw.ready)
          => \E i \in CycleWrites :
               write_calls[i].json_body = <<BmePoint(BmeEntry(raw))>>)

C18_Witness ==
  /\ logger = "bme"
  /\ Len(samples) = 2
  /\ ~samples[1].raw.ready /\ ~samples[1].raw.fault
  /\ samples[1].data = NoData
  /\ samples[2].raw.ready
  /\ Len(write_calls) = 1
  /\ write_calls[1].cycle = 2
  /\ Running

\* the channels of a batch, in the order of its points
BatchChannels(body) == [j \in 1..Len(body) |-> body[j].tags.channel]

\* C19: every batch the soil-moisture logger submits has exactly one point
\* for each enabled channel and none for a disabled one, in the order A0, A1,
\* A2, A3; never a batch for only part of the enabled channels.
C19_BatchCoversEnabledChannels ==
  logger = "ads" =>
    \A i \in 1..Len(write_calls) :
      BatchChannels(write_calls[i].json_body) = EnabledChannels(SENSOR_CONFIG)

C19_Witness ==
  /\ logger = "ads"
  /\ SENSOR_CONFIG["A3"].enabled
  /\ Len(write_calls) >= 1
  /\ BatchChannels(write_calls[1].json_body) = <<"A1", "A3">>

====
